---- MODULE Spec2Model ----
(***************************************************************************)
(* Model of src/app.py, the internship dashboard: the ingestion of the     *)
(* spreadsheet grid (fetch_internship_data), its 300 s memoization, the    *)
(* column standardization of uploaded tables (standardize_columns) and     *)
(* the filter / sort / display pass of main.                               *)
(*                                                                         *)
(* Strings of the module are ASCII; the labels of the source are written   *)
(* as follows.                                                             *)
(*   intern_name インターン名      company 企業名        industry 業界      *)
(*   intern_position インターン職種  position 職種       location 勤務地     *)
(*   station 最寄り駅              period 期間           salary 報酬        *)
(*   transport 交通費              available_hours 勤務可能時間              *)
(*   work_days 勤務日数            work_hours 勤務時間                      *)
(*   selection_flow 選考フロー     deadline 応募締切     start_date 開始予定日 *)
(*   headcount 募集人数            required_skills 必須スキル               *)
(*   preferred_skills 歓迎スキル   work_type 形式        target 募集対象     *)
(*   description 説明              T_unknown 不明        all すべて         *)
(*   T_no_details 詳細情報はありません                                      *)
(*   this_week 今週締切            this_month 今月締切   closed 締切済み     *)
(*   by_deadline 応募締切が近い順  by_company 会社名(昇順)                  *)
(*   latest 最新登録順                                                     *)
(* The messages of the source are named by what they say:                  *)
(*   error_no_service (line 139)   info_hardcoded (161)                    *)
(*   warning_no_values (171)       error_fetch (190)                       *)
(*   success_upload (391)          error_upload (393)                      *)
(*   warning_no_data (396)         info_no_match (550)                     *)
(* A text is the sequence of its characters, so that parsing reads it.     *)
(* The library calls are those of pandas 2 with nanosecond Timestamps and  *)
(* of Streamlit's cache_data.                                              *)
(***************************************************************************)
EXTENDS Integers, Sequences, FiniteSets, TLC

VARIABLES
    upstream,   \* state of the Sheets service: "ok", "no_service", "api_error"
    secrets,    \* the configured data source (SPREADSHEET_ID + SHEET_NAME)
    remote,     \* remote[s]: the grid the API returns for source s
    now,        \* seconds on the clock of the cache
    today,      \* ordinal of datetime.now().date()
    cache,      \* the st.cache_data entry of fetch_internship_data
    call,       \* the request to the Sheets API that waits for its answer
    uploaded,   \* what pd.read_excel makes of the uploaded file
    arg,        \* the table last passed to standardize_columns, after the call
    df,         \* the table main holds after ingestion
    df2,        \* the table of a second standardize_columns call
    out,        \* what the last run of main showed
    pc          \* the step of the one-shot specifications

vars == <<upstream, secrets, remote, now, today, cache, call, uploaded, arg,
          df, df2, out, pc>>

-----------------------------------------------------------------------------
(* Bounds of the model.                                                    *)

MaxRows == 2
MaxNow == 450
TickSeconds == 150

-----------------------------------------------------------------------------
(* Cells.  A cell is text, None / NaN, a Timestamp or NaT.  A Timestamp is *)
(* the ordinal of its day and the seconds since its midnight.              *)

Str(s) == [k |-> "str", s |-> s, d |-> 0, t |-> 0]
Ts(n, secs) == [k |-> "ts", s |-> <<>>, d |-> n, t |-> secs]
None == [k |-> "none", s |-> <<>>, d |-> 0, t |-> 0]
NaT == [k |-> "nat", s |-> <<>>, d |-> 0, t |-> 0]

\* the text put in a column the table lacks
T_unknown == <<"u", "n", "k", "n", "o", "w", "n">>

\* pd.isna / Series.isnull
IsNull(c) == c.k \in {"none", "nat"}

Digits == {"0", "1", "2", "3", "4", "5", "6", "7", "8", "9"}

DigitVal(c) ==
    CASE c = "0" -> 0 [] c = "1" -> 1 [] c = "2" -> 2 [] c = "3" -> 3
      [] c = "4" -> 4 [] c = "5" -> 5 [] c = "6" -> 6 [] c = "7" -> 7
      [] c = "8" -> 8 [] c = "9" -> 9

\* the characters of the texts, in the order of their code points
Alphabet ==
    <<" ", ",", "-", ".", "/",
      "0", "1", "2", "3", "4", "5", "6", "7", "8", "9", ":",
      "A", "B", "C", "D", "E", "F", "G", "H", "I", "J", "K", "L", "M",
      "N", "O", "P", "Q", "R", "S", "T", "U", "V", "W", "X", "Y", "Z",
      "a", "b", "c", "d", "e", "f", "g", "h", "i", "j", "k", "l", "m",
      "n", "o", "p", "q", "r", "s", "t", "u", "v", "w", "x", "y", "z">>

CharRank(c) == CHOOSE r \in 1..Len(Alphabet) : Alphabet[r] = c

IsLetter(c) == CharRank(c) \in 17..68

Lower(c) == IF CharRank(c) \in 17..42 THEN Alphabet[CharRank(c) + 26] ELSE c
LowerText(s) == [i \in 1..Len(s) |-> Lower(s[i])]

\* the text with its first letter in upper case
Capitalized(s) == [i \in 1..Len(s) |-> IF i = 1 THEN Alphabet[CharRank(s[1]) - 26]
                                        ELSE s[i]]

-----------------------------------------------------------------------------
(* Calendar arithmetic of datetime.date: proleptic Gregorian ordinals.     *)

DaysInMonth(y, m) ==
    IF m = 2
    THEN (IF (y % 4 = 0) /\ ((y % 100 # 0) \/ (y % 400 = 0)) THEN 29 ELSE 28)
    ELSE IF m \in {4, 6, 9, 11} THEN 30 ELSE 31

DaysBeforeYear(y) ==
    (y - 1) * 365 + ((y - 1) \div 4) - ((y - 1) \div 100) + ((y - 1) \div 400)

RECURSIVE DaysBeforeMonth(_, _)
DaysBeforeMonth(y, m) ==
    IF m = 1 THEN 0 ELSE DaysBeforeMonth(y, m - 1) + DaysInMonth(y, m - 1)

\* date(y, m, d).toordinal()
Ordinal(y, m, d) == DaysBeforeYear(y) + DaysBeforeMonth(y, m) + d

YearOf(n) ==
    CHOOSE y \in (n \div 366)..((n \div 365) + 1) :
        DaysBeforeYear(y) < n /\ n <= DaysBeforeYear(y + 1)

MonthOf(n) ==
    LET y == YearOf(n)
        r == n - DaysBeforeYear(y)
    IN  CHOOSE m \in 1..12 :
            DaysBeforeMonth(y, m) < r /\ r <= DaysBeforeMonth(y, m) + DaysInMonth(y, m)

\* Timestamp.day
DayOf(n) == n - DaysBeforeYear(YearOf(n)) - DaysBeforeMonth(YearOf(n), MonthOf(n))

\* Timestamp.dayofweek: Monday is 0
DayOfWeek(n) == (n + 6) % 7

\* Timestamp.replace(day=d)
-----------------------------------------------------------------------------
(* pd.to_datetime(column, errors='coerce').  The reading of a text is      *)
(* that of dateutil's parser, which pandas calls to guess the format of    *)
(* a column and to read the texts of a column without one.  The model      *)
(* reads the texts of these layouts:                                       *)
(*   YYYY-M-D   YYYY/M/D   YYYY.M.D   Month D, YYYY                        *)
(* with M and D of one or two digits and Month an English month name or    *)
(* its short form, followed or not by a time of day " H:M", " H:M:S",      *)
(* "TH:M" or "TH:M:S"; and, as texts that are no date, the blank and the   *)
(* words that are none of dateutil's.  After a month name the year is      *)
(* 0100 or later: dateutil takes a smaller one for a year of the century   *)
(* around the year of the clock (convertyear), so that "Jan 1, 0001" is    *)
(* 2001-01-01 or another year with the day the program runs.  Parse has    *)
(* no value on any other text: the model says nothing of what pandas       *)
(* makes of it.                                                            *)

\* dateutil's _timelex.get_token after the first i characters of s, read in
\* the state st: the length of the run it takes, the state it ends in, and
\* whether letters were seen
RECURSIVE Lex(_, _, _, _)
Lex(s, i, st, seen) ==
    IF i = Len(s) THEN [n |-> i, st |-> st, seen |-> seen]
    ELSE IF st = "a"
    THEN IF IsLetter(s[i + 1]) THEN Lex(s, i + 1, "a", TRUE)
         ELSE IF s[i + 1] = "." THEN Lex(s, i + 1, "a.", TRUE)
         ELSE [n |-> i, st |-> st, seen |-> TRUE]
    ELSE IF st = "0"
    THEN IF s[i + 1] \in Digits THEN Lex(s, i + 1, "0", seen)
         ELSE IF s[i + 1] = "." \/ (s[i + 1] = "," /\ i >= 2)
         THEN Lex(s, i + 1, "0.", seen)
         ELSE [n |-> i, st |-> st, seen |-> seen]
    ELSE IF st = "a."
    THEN IF s[i + 1] = "." \/ IsLetter(s[i + 1]) THEN Lex(s, i + 1, "a.", TRUE)
         ELSE IF s[i + 1] \in Digits /\ s[i] = "." THEN Lex(s, i + 1, "0.", TRUE)
         ELSE [n |-> i, st |-> st, seen |-> TRUE]
    ELSE IF s[i + 1] = "." \/ s[i + 1] \in Digits THEN Lex(s, i + 1, "0.", seen)
    ELSE IF IsLetter(s[i + 1]) /\ s[i] = "." THEN Lex(s, i + 1, "a.", seen)
    ELSE [n |-> i, st |-> st, seen |-> seen]

\* the run at the head of s: a word, a number, or one other character
FirstRun(s) ==
    IF IsLetter(s[1]) THEN Lex(s, 1, "a", FALSE)
    ELSE IF s[1] \in Digits THEN Lex(s, 1, "0", FALSE)
    ELSE [n |-> 1, st |-> "other", seen |-> FALSE]

\* _split_decimal.split(tok), without its empty pieces
RECURSIVE split_decimal(_)
split_decimal(tok) ==
    IF tok = <<>> THEN <<>>
    ELSE IF tok[1] \in {".", ","} THEN <<<<tok[1]>>>> \o split_decimal(Tail(tok))
    ELSE <<SubSeq(tok, 1, CHOOSE n \in 1..Len(tok) :
               /\ \A i \in 1..n : tok[i] \notin {".", ","}
               /\ (n = Len(tok) \/ tok[n + 1] \in {".", ","}))>>
         \o split_decimal(SubSeq(tok, 1 + (CHOOSE n \in 1..Len(tok) :
               /\ \A i \in 1..n : tok[i] \notin {".", ","}
               /\ (n = Len(tok) \/ tok[n + 1] \in {".", ","})), Len(tok)))

\* the tokens of a run: a run with dots is cut at its dots and commas when
\* it holds letters or several dots or ends in one; a number with a comma
\* for its decimal point gets the point
Emit(tok, st, seen) ==
    IF /\ st \in {"a.", "0."}
       /\ \/ seen
          \/ Cardinality({i \in 1..Len(tok) : tok[i] = "."}) > 1
          \/ tok[Len(tok)] \in {".", ","}
    THEN split_decimal(tok)
    ELSE IF st = "0." /\ \A i \in 1..Len(tok) : tok[i] # "."
    THEN <<[i \in 1..Len(tok) |-> IF tok[i] = "," THEN "." ELSE tok[i]]>>
    ELSE <<tok>>

\* _timelex.split(s)
RECURSIVE Tokens(_)
Tokens(s) ==
    IF s = <<>> THEN <<>>
    ELSE Emit(SubSeq(s, 1, FirstRun(s).n), FirstRun(s).st, FirstRun(s).seen)
             \o Tokens(SubSeq(s, FirstRun(s).n + 1, Len(s)))

IsNum(tok) == tok # <<>> /\ \A i \in 1..Len(tok) : tok[i] \in Digits

RECURSIVE Num(_)
Num(tok) ==
    IF tok = <<>> THEN 0
    ELSE Num(SubSeq(tok, 1, Len(tok) - 1)) * 10 + DigitVal(tok[Len(tok)])

\* a number of one or two digits
Short(tok) == IsNum(tok) /\ Len(tok) <= 2

\* the month names of strftime's %B, in lower case; %b writes their first
\* three letters
MonthNames ==
    << <<"j", "a", "n", "u", "a", "r", "y">>,
       <<"f", "e", "b", "r", "u", "a", "r", "y">>,
       <<"m", "a", "r", "c", "h">>, <<"a", "p", "r", "i", "l">>,
       <<"m", "a", "y">>, <<"j", "u", "n", "e">>, <<"j", "u", "l", "y">>,
       <<"a", "u", "g", "u", "s", "t">>,
       <<"s", "e", "p", "t", "e", "m", "b", "e", "r">>,
       <<"o", "c", "t", "o", "b", "e", "r">>,
       <<"n", "o", "v", "e", "m", "b", "e", "r">>,
       <<"d", "e", "c", "e", "m", "b", "e", "r">> >>

IsFullName(w, m) == LowerText(w) = MonthNames[m]
IsAbbrName(w, m) == LowerText(w) = SubSeq(MonthNames[m], 1, 3)

\* parserinfo.month(w): the month a word names, in any case of its
\* letters, by its full name, its first three letters or Sept; 0 when it
\* names none
MonthOfName(w) ==
    IF \E m \in 1..12 : IsFullName(w, m) \/ IsAbbrName(w, m)
    THEN CHOOSE m \in 1..12 : IsFullName(w, m) \/ IsAbbrName(w, m)
    ELSE IF LowerText(w) = <<"s", "e", "p", "t">> THEN 9
    ELSE 0

\* the words dateutil's parser knows beside the month names (weekdays,
\* jump words, units of time, AM and PM, names of UTC), the words of
\* float() and pandas' now and today, in lower case
OtherWords ==
    {<<"a">>, <<"a", "d">>, <<"a", "m">>, <<"a", "n", "d">>, <<"a", "t">>,
     <<"f", "r", "i">>, <<"f", "r", "i", "d", "a", "y">>,
     <<"g", "m", "t">>, <<"h">>, <<"h", "o", "u", "r">>,
     <<"h", "o", "u", "r", "s">>, <<"i", "n", "f">>,
     <<"i", "n", "f", "i", "n", "i", "t", "y">>, <<"m">>,
     <<"m", "i", "n", "u", "t", "e">>,
     <<"m", "i", "n", "u", "t", "e", "s">>, <<"m", "o", "n">>,
     <<"m", "o", "n", "d", "a", "y">>, <<"n", "a", "n">>,
     <<"n", "a", "t">>, <<"n", "d">>, <<"n", "o", "w">>, <<"o", "f">>,
     <<"o", "n">>, <<"p">>, <<"p", "m">>, <<"r", "d">>, <<"s">>,
     <<"s", "a", "t">>, <<"s", "a", "t", "u", "r", "d", "a", "y">>,
     <<"s", "e", "c", "o", "n", "d">>,
     <<"s", "e", "c", "o", "n", "d", "s">>, <<"s", "t">>,
     <<"s", "u", "n">>, <<"s", "u", "n", "d", "a", "y">>, <<"t">>,
     <<"t", "h">>, <<"t", "h", "u">>,
     <<"t", "h", "u", "r", "s", "d", "a", "y">>,
     <<"t", "o", "d", "a", "y">>, <<"t", "u", "e">>,
     <<"t", "u", "e", "s", "d", "a", "y">>, <<"u", "t", "c">>,
     <<"w", "e", "d">>, <<"w", "e", "d", "n", "e", "s", "d", "a", "y">>,
     <<"z">>}

\* a text that is no date: the blank, or a word that is none of the above
NoDateText(s) ==
    \/ s = <<" ">>
    \/ /\ s # <<>>
       /\ \A i \in 1..Len(s) : IsLetter(s[i])
       /\ MonthOfName(s) = 0
       /\ LowerText(s) \notin OtherWords

NoDate == [ok |-> FALSE, len |-> 0, shape |-> <<>>, word |-> <<>>,
           y |-> 0, m |-> 0, d |-> 0]

\* the date at the head of the tokens tk, in one of the layouts of the
\* model: what it takes of them, its layout, the word of its month, and the
\* numbers of its year, month and day
DateOf(tk) ==
    IF /\ Len(tk) >= 5 /\ IsNum(tk[1]) /\ Len(tk[1]) = 4
       /\ tk[2] \in {<<"-">>, <<"/">>, <<".">>} /\ Short(tk[3])
       /\ tk[4] \in {<<"-">>, <<"/">>, <<".">>} /\ Short(tk[5])
       /\ (tk[2] = <<".">> <=> tk[4] = <<".">>)
    THEN [ok |-> TRUE, len |-> 5,
          shape |-> <<"%Y", tk[2][1], "%m", tk[4][1], "%d">>,
          word |-> <<>>, y |-> Num(tk[1]), m |-> Num(tk[3]), d |-> Num(tk[5])]
    ELSE IF /\ Len(tk) >= 6 /\ IsLetter(tk[1][1]) /\ MonthOfName(tk[1]) # 0
            /\ tk[2] = <<" ">> /\ Short(tk[3]) /\ tk[4] = <<",">>
            /\ tk[5] = <<" ">> /\ IsNum(tk[6]) /\ Len(tk[6]) = 4
            /\ Num(tk[6]) >= 100
    THEN [ok |-> TRUE, len |-> 6,
          shape |-> <<"%B", " ", "%d", ",", " ", "%Y">>,
          word |-> tk[1], y |-> Num(tk[6]), m |-> MonthOfName(tk[1]),
          d |-> Num(tk[3])]
    ELSE NoDate

\* the tokens after the first k are a time of day
HasTime(tk, k) ==
    /\ Len(tk) \in {k + 4, k + 6}
    /\ tk[k + 1] \in {<<" ">>, <<"T">>}
    /\ Short(tk[k + 2]) /\ tk[k + 3] = <<":">> /\ Short(tk[k + 4])
    /\ Num(tk[k + 2]) <= 23 /\ Num(tk[k + 4]) <= 59
    /\ Len(tk) = k + 6 =>
           (tk[k + 5] = <<":">> /\ Short(tk[k + 6]) /\ Num(tk[k + 6]) <= 59)

\* the layout of the time of day after the first k tokens
TimeShape(tk, k) ==
    IF Len(tk) = k THEN <<>>
    ELSE <<tk[k + 1][1], "%H", ":", "%M">>
             \o (IF Len(tk) = k + 6 THEN <<":", "%S">> ELSE <<>>)

\* the time of day after the first k tokens, in seconds since midnight
SecondsOf(tk, k) ==
    IF Len(tk) = k THEN 0
    ELSE Num(tk[k + 2]) * 3600 + Num(tk[k + 4]) * 60
             + (IF Len(tk) = k + 6 THEN Num(tk[k + 6]) ELSE 0)

\* the tokens tk, whose head is dt, are a text of the layouts of the model:
\* a date alone or with its time of day, the month of a date with a time
\* written as strftime writes it
IsDateForm(tk, dt) ==
    /\ dt.ok /\ dt.y >= 1 /\ dt.m \in 1..12 /\ dt.d \in 1..31
    /\ \/ Len(tk) = dt.len
       \/ /\ HasTime(tk, dt.len)
          /\ \/ dt.word = <<>>
             \/ dt.word = Capitalized(MonthNames[dt.m])
             \/ dt.word = Capitalized(SubSeq(MonthNames[dt.m], 1, 3))

NoReading == [ok |-> FALSE, shape |-> <<>>, word |-> <<>>, timed |-> FALSE,
              y |-> 0, d |-> 0, t |-> 0]

\* the reading of the tokens tk whose head is the date dt: none for a day
\* its month does not have
Reading(tk, dt) ==
    IF dt.d <= DaysInMonth(dt.y, dt.m)
    THEN [ok |-> TRUE, shape |-> dt.shape \o TimeShape(tk, dt.len),
          word |-> dt.word, timed |-> Len(tk) > dt.len, y |-> dt.y,
          d |-> Ordinal(dt.y, dt.m, dt.d), t |-> SecondsOf(tk, dt.len)]
    ELSE NoReading

nat_strings ==
    {<<"N", "a", "T">>, <<"n", "a", "t">>, <<"N", "A", "T">>,
     <<"n", "a", "n">>, <<"N", "a", "N">>, <<"N", "A", "N">>}

\* a text that counts as missing
NullText(s) == s = <<>> \/ s \in nat_strings

\* the reading of a text as a date: whether it is one, its layout, the
\* word of its month, whether it has a time of day, its year, its day as an
\* ordinal and its seconds since midnight
Parse(s) ==
    CASE NullText(s) \/ NoDateText(s) -> NoReading
      [] IsDateForm(Tokens(s), DateOf(Tokens(s))) ->
             Reading(Tokens(s), DateOf(Tokens(s)))

\* Timestamp.min and Timestamp.max: 1677-09-21 00:12:43.145224193 and
\* 2262-04-11 23:47:16.854775807
InBounds(d, t) ==
    /\ d > Ordinal(1677, 9, 21) \/ (d = Ordinal(1677, 9, 21) /\ t >= 764)
    /\ d < Ordinal(2262, 4, 11) \/ (d = Ordinal(2262, 4, 11) /\ t <= 85636)

\* the Timestamp of a reading; NaT when it is of no date or is out of the
\* bounds
StampOf(p) == IF p.ok /\ InBounds(p.d, p.t) THEN Ts(p.d, p.t) ELSE NaT

\* the Timestamp of a text read as a date
Stamp(s) == StampOf(Parse(s))

\* tslib.first_non_null: the position of the first cell that is neither
\* missing nor a text that counts as missing nor now nor today; 0 when
\* there is none
first_non_null(cells) ==
    LET P(i) == /\ ~IsNull(cells[i])
                /\ ~(/\ cells[i].k = "str"
                     /\ \/ NullText(cells[i].s)
                        \/ cells[i].s \in {<<"n", "o", "w">>,
                                           <<"t", "o", "d", "a", "y">>})
    IN  IF \E i \in 1..Len(cells) : P(i)
        THEN CHOOSE i \in 1..Len(cells) : P(i) /\ \A j \in 1..(i - 1) : ~P(j)
        ELSE 0

NoFormat == [shape |-> <<>>, month |-> "none"]

\* the format of a reading: its layout, with %B for a month written as
\* strftime writes its full name and %b for its short name.  There is none
\* when the reading is of no date or is out of the bounds, when the month
\* is written otherwise, and when the hour and the minute, written HHMM,
\* are the digits of the year: the year is then taken for %H%M and no year
\* is found
FormatOf(p) ==
    IF ~p.ok \/ ~InBounds(p.d, p.t) THEN NoFormat
    ELSE IF p.timed /\ p.y = (p.t \div 3600) * 100 + (p.t % 3600) \div 60
    THEN NoFormat
    ELSE IF p.word = <<>> THEN [shape |-> p.shape, month |-> "%m"]
    ELSE IF p.word = Capitalized(MonthNames[MonthOfName(p.word)])
    THEN [shape |-> p.shape, month |-> "%B"]
    ELSE IF p.word = Capitalized(SubSeq(MonthNames[MonthOfName(p.word)], 1, 3))
    THEN [shape |-> p.shape, month |-> "%b"]
    ELSE NoFormat

\* the format guessed from a text
guess_datetime_format(s) == FormatOf(Parse(s))

\* the reading p is of a text written in the format: %B and %b take the
\* name in any case of its letters
Written(p, fmt) ==
    /\ p.ok
    /\ p.shape = fmt.shape
    /\ fmt.month = "%B" => \E m \in 1..12 : IsFullName(p.word, m)
    /\ fmt.month = "%b" => \E m \in 1..12 : IsAbbrName(p.word, m)

\* the text is written in the format
Matches(s, fmt) == Written(Parse(s), fmt)

\* one cell under the format of its column; without a format every text is
\* read on its own
ToStamp(c, fmt) ==
    IF c.k = "ts" THEN c
    ELSE IF c.k # "str" \/ NullText(c.s) THEN NaT
    ELSE IF fmt = NoFormat \/ Matches(c.s, fmt) THEN Stamp(c.s)
    ELSE NaT

\* pd.to_datetime(cells, errors='coerce'): the format is guessed from the
\* first cell that is not missing and holds for the whole column
to_datetime(cells) ==
    LET k == first_non_null(cells)
        fmt == IF k = 0 \/ cells[k].k # "str" THEN NoFormat
               ELSE guess_datetime_format(cells[k].s)
    IN  [i \in 1..Len(cells) |-> ToStamp(cells[i], fmt)]

-----------------------------------------------------------------------------
(* Tables.  A DataFrame is its column labels and its rows, each row as     *)
(* wide as the labels; the position of a row is its index label.           *)

EmptyFrame == [cols |-> <<>>, rows |-> <<>>]

\* DataFrame.empty
IsEmpty(t) == Len(t.cols) = 0 \/ Len(t.rows) = 0

\* the positions of the columns labelled name (several when labels repeat)
ColIdx(t, name) == {j \in 1..Len(t.cols) : t.cols[j] = name}

HasCol(t, name) == ColIdx(t, name) # {}

\* the position of the only column labelled name
TheCol(t, name) == CHOOSE j \in ColIdx(t, name) : TRUE

\* record access by label: one value per column so labelled, in column order
RECURSIVE PickLabel(_, _, _, _)
PickLabel(cols, row, name, j) ==
    IF j > Len(cols) THEN <<>>
    ELSE (IF cols[j] = name THEN <<row[j]>> ELSE <<>>)
             \o PickLabel(cols, row, name, j + 1)

\* internship.get(name, default) on the record of row i: the value under
\* the label (several under a repeated label), the default without it
Get(t, i, name, default) ==
    IF HasCol(t, name) THEN PickLabel(t.cols, t.rows[i], name, 1) ELSE <<default>>

RECURSIVE MaxWidth(_)
MaxWidth(rows) ==
    IF rows = <<>> THEN 0
    ELSE LET w == Len(Head(rows))
             r == MaxWidth(Tail(rows))
         IN  IF w > r THEN w ELSE r

\* pd.DataFrame(rows, columns=headers) raises unless the widest row is as
\* wide as the header
FrameRaises(rows, headers) == rows # <<>> /\ MaxWidth(rows) # Len(headers)

\* pd.DataFrame(rows, columns=headers): rows shorter than the widest are
\* filled with None
DataFrame(rows, headers) ==
    [cols |-> headers,
     rows |-> [i \in 1..Len(rows) |->
                  [j \in 1..Len(headers) |->
                      IF j <= Len(rows[i]) THEN Str(rows[i][j]) ELSE None]]]

\* df[name] = pd.to_datetime(df[name], errors='coerce')
ConvertCol(t, name) ==
    LET j == TheCol(t, name)
        stamps == to_datetime([i \in 1..Len(t.rows) |-> t.rows[i][j]])
    IN  [t EXCEPT !.rows =
            [i \in 1..Len(t.rows) |-> [t.rows[i] EXCEPT ![j] = stamps[i]]]]

\* line 185, after line 183 has passed: a failing lookup leaves the table
\* as it is
ConvertStart(t) ==
    IF Cardinality(ColIdx(t, "start_date")) # 1 THEN t
    ELSE ConvertCol(t, "start_date")

\* the try block of lines 182-186: the first failing lookup leaves the rest
\* of the block undone
ConvertDates(t) ==
    IF Cardinality(ColIdx(t, "deadline")) # 1 THEN t
    ELSE ConvertStart(ConvertCol(t, "deadline"))

\* the spreadsheet read by the body: the secrets' one, or the hardcoded one
SourceOf(sec) == IF sec = "unset" THEN "hardcoded" ELSE sec

\* lines 137-161: without a service the function returns at once; with one
\* it reads the secrets and asks the API for the sheet
FetchStart(up, sec) ==
    IF up = "no_service"
    THEN [wait |-> FALSE, src |-> "none", notices |-> {"error_no_service"}]
    ELSE [wait |-> TRUE, src |-> SourceOf(sec),
          notices |-> IF sec = "unset" THEN {"info_hardcoded"} ELSE {}]

\* the rest of the body without its test of an empty answer: values[0]
\* raises, and the handler of line 189 reports the error
FetchAnswer_NoEmptyTest(up, notices, values) ==
    IF up = "api_error" \/ values = <<>>
    THEN [frame |-> EmptyFrame, notices |-> notices \cup {"error_fetch"}]
    ELSE IF FrameRaises(Tail(values), Head(values))
    THEN [frame |-> EmptyFrame, notices |-> notices \cup {"error_fetch"}]
    ELSE [frame |-> ConvertDates(DataFrame(Tail(values), Head(values))),
          notices |-> notices]

\* lines 167-191, once the API has answered with values or has failed: the
\* table returned and the messages shown by the whole call
FetchAnswer(up, notices, values) ==
    IF up = "api_error"
    THEN [frame |-> EmptyFrame, notices |-> notices \cup {"error_fetch"}]
    ELSE IF values = <<>>
    THEN [frame |-> EmptyFrame, notices |-> notices \cup {"warning_no_values"}]
    ELSE IF FrameRaises(Tail(values), Head(values))
    THEN [frame |-> EmptyFrame, notices |-> notices \cup {"error_fetch"}]
    ELSE [frame |-> ConvertDates(DataFrame(Tail(values), Head(values))),
          notices |-> notices]

-----------------------------------------------------------------------------
(* standardize_columns.                                                    *)

MappingKeys ==
    {"intern_name", "company", "industry", "intern_position", "position",
     "location", "station", "period", "salary", "transport",
     "available_hours", "work_days", "work_hours", "selection_flow",
     "deadline", "start_date", "headcount", "required_skills",
     "preferred_skills", "work_type", "target", "description"}

\* column_mapping[col], for col one of its keys
column_mapping(col) == IF col = "intern_position" THEN "position" ELSE col

\* the canonical fields: the values of column_mapping
CanonicalFields == {column_mapping(col) : col \in MappingKeys}

required_columns ==
    <<"intern_name", "company", "industry", "position", "location", "description">>

\* renamed_columns is not empty
Renames(t) == \E j \in 1..Len(t.cols) : t.cols[j] \in MappingKeys

\* df.rename(columns=renamed_columns)
RenameColumns(t) ==
    [t EXCEPT !.cols =
        [j \in 1..Len(t.cols) |->
            IF t.cols[j] \in MappingKeys THEN column_mapping(t.cols[j])
            ELSE t.cols[j]]]

\* df[col] = unknown, for a label the table lacks
AddColumn(t, col) ==
    [cols |-> Append(t.cols, col),
     rows |-> [i \in 1..Len(t.rows) |-> Append(t.rows[i], Str(T_unknown))]]

RECURSIVE AddRequired(_, _)
AddRequired(t, k) ==
    IF k > Len(required_columns) THEN t
    ELSE AddRequired(IF HasCol(t, required_columns[k]) THEN t
                     ELSE AddColumn(t, required_columns[k]), k + 1)

\* the table returned
standardize_columns(t) == AddRequired(RenameColumns(t), 1)

\* the caller's table after the call: df.rename makes a copy, and without
\* it (line 229) the required columns are written into the caller's table
ArgumentAfter(t) == IF Renames(t) THEN t ELSE standardize_columns(t)

-----------------------------------------------------------------------------
(* display_internship_card: the values a card shows.  The style class of   *)
(* the industry tag is left out.                                           *)

T_no_details == <<"n", "o", " ", "d", "e", "t", "a", "i", "l", "s">>

DigitChar(n) == CHOOSE c \in Digits : DigitVal(c) = n

\* deadline.strftime('%Y-%m-%d')
strftime(n) ==
    LET y == YearOf(n)
        m == MonthOf(n)
        d == DayOf(n)
    IN  <<DigitChar(y \div 1000), DigitChar((y \div 100) % 10),
          DigitChar((y \div 10) % 10), DigitChar(y % 10), "-",
          DigitChar(m \div 10), DigitChar(m % 10), "-",
          DigitChar(d \div 10), DigitChar(d % 10)>>

\* format_deadline raises on several values (the truth of a Series) and on
\* a text (it has no date())
DeadlineRaises(v) == Len(v) > 1 \/ v[1].k = "str"

\* format_deadline: nothing for a missing deadline, else the date with what
\* is left of the days
format_deadline(v, tdy) ==
    IF IsNull(v[1]) THEN [kind |-> "empty", days |-> 0, text |-> <<>>]
    ELSE LET days_remaining == v[1].d - tdy
         IN  [kind |-> IF days_remaining < 0 THEN "closed"
                       ELSE IF days_remaining = 0 THEN "today"
                       ELSE IF days_remaining <= 7 THEN "soon"
                       ELSE "plain",
              days |-> IF days_remaining > 0 /\ days_remaining <= 7
                       THEN days_remaining ELSE 0,
              text |-> strftime(v[1].d)]

\* format_markdown_description raises on several values and on a Timestamp
DescriptionRaises(v) == Len(v) > 1 \/ v[1].k = "ts"

\* format_markdown_description: the fixed text for a missing or empty
\* description, else the markup made of the text
format_markdown_description(v) ==
    IF IsNull(v[1]) \/ v[1].s = <<>>
    THEN [markup |-> FALSE, of |-> T_no_details]
    ELSE [markup |-> TRUE, of |-> v[1].s]

NoCard ==
    [error |-> TRUE, title |-> <<>>, company |-> <<>>, industry |-> <<>>,
     work_type |-> <<>>, location |-> <<>>, salary |-> <<>>,
     deadline |-> [kind |-> "empty", days |-> 0, text |-> <<>>],
     description |-> [markup |-> FALSE, of |-> <<>>]]

\* the card of the record of row i; the title built of company and
\* position is the pair of them
display_internship_card(t, i, tdy) ==
    LET company == Get(t, i, "company", Str(T_unknown))
        position == Get(t, i, "position", Str(T_unknown))
        title == IF HasCol(t, "intern_name")
                 THEN Get(t, i, "intern_name", None)
                 ELSE company \o position
        deadline == Get(t, i, "deadline", Str(<<>>))
        description == Get(t, i, "description", Str(T_no_details))
    IN  IF DeadlineRaises(deadline) \/ DescriptionRaises(description)
        THEN NoCard
        ELSE [error |-> FALSE, title |-> title, company |-> company,
              industry |-> Get(t, i, "industry", Str(T_unknown)),
              work_type |-> Get(t, i, "work_type", Str(T_unknown)),
              location |-> Get(t, i, "location", Str(T_unknown)),
              salary |-> Get(t, i, "salary", Str(T_unknown)),
              deadline |-> format_deadline(deadline, tdy),
              description |-> format_markdown_description(description)]

-----------------------------------------------------------------------------
(* The values the state starts from.                                       *)

\* a selectbox holds the option all, or one of the values of its column
AllOpt == [any |-> TRUE, v |-> None]
Only(c) == [any |-> FALSE, v |-> c]

OutInit ==
    [path |-> "none", status |-> "idle", notices |-> {}, shown |-> <<>>,
     cards |-> <<>>, hit |-> FALSE, flip |-> FALSE, industry |-> AllOpt,
     position |-> AllOpt, work_type |-> AllOpt, deadline |-> "all",
     sort_by |-> "latest"]

NoEntry == [valid |-> FALSE, at |-> 0, src |-> "none", raw |-> <<>>,
            value |-> [frame |-> EmptyFrame, notices |-> {}]]

NoCall == [on |-> FALSE, src |-> "none", notices |-> {}]

NoFile == [kind |-> "none", frame |-> EmptyFrame]

-----------------------------------------------------------------------------
(* The cache of fetch_internship_data.                                     *)

TTL == 300

\* the decorator without its ttl: the entry never runs out
CacheFresh_NoTtl(c, t) == c.valid

\* the entry is served while its age is below ttl
CacheFresh(c, t) == c.valid /\ t < c.at + TTL

\* the entry written when the body returns at time t: the function takes no
\* argument, so the entry is its only one; src and raw record which source
\* the body asked for and the grid it got
Entry(t, src, raw, result) ==
    [valid |-> TRUE, at |-> t, src |-> src, raw |-> raw, value |-> result]

-----------------------------------------------------------------------------
(* main: the widgets, the filters, the statistics and the sort.            *)

deadline_options == {"all", "this_week", "this_month", "closed"}
\* the keys of sort_options in the order of the dict: the selectbox of line
\* 533 starts on the first
sort_options == <<"by_deadline", "by_company", "latest">>

\* the cells of column name in the rows idxs
CellsOf(t, idxs, name) == {t.rows[idxs[k]][TheCol(t, name)] : k \in 1..Len(idxs)}

AllRows(t) == [i \in 1..Len(t.rows) |-> i]

\* sorted(list) raises on two values that do not compare
SortedRaises(vals) ==
    /\ Cardinality(vals) >= 2
    /\ ~(\A c \in vals : c.k = "str")
    /\ ~(\A c \in vals : c.k \in {"ts", "nat"})

\* sorted(df[name].unique().tolist()) raises: no such column, several of
\* them, or values that do not compare
OptionsRaise(t, name) ==
    \/ Cardinality(ColIdx(t, name)) # 1
    \/ SortedRaises(CellsOf(t, AllRows(t), name))

Options(t, name) == {AllOpt} \cup {Only(c) : c \in CellsOf(t, AllRows(t), name)}

\* lines 421-432
WidgetsRaise(t) ==
    \/ OptionsRaise(t, "industry")
    \/ OptionsRaise(t, "position")
    \/ (HasCol(t, "work_type") /\ OptionsRaise(t, "work_type"))

work_types(t) == IF HasCol(t, "work_type") THEN Options(t, "work_type") ELSE {AllOpt}

\* filtered_df[filtered_df[name] == selected]
KeepEqual(t, idxs, name, opt) ==
    LET Test(i) == ~IsNull(opt.v) /\ t.rows[i][TheCol(t, name)] = opt.v
    IN  IF opt.any THEN idxs ELSE SelectSeq(idxs, Test)

\* lines 446-453
FilterFields(t, ind, pos, wt) ==
    LET f1 == KeepEqual(t, AllRows(t), "industry", ind)
        f2 == KeepEqual(t, f1, "position", pos)
    IN  IF HasCol(t, "work_type") THEN KeepEqual(t, f2, "work_type", wt) ELSE f2

\* "deadline" in columns and not column.isnull().all(), on the rows idxs;
\* with the label repeated the test itself raises
DeadlineKnown(t, idxs) ==
    /\ HasCol(t, "deadline")
    /\ ~(\A c \in CellsOf(t, idxs, "deadline") : IsNull(c))

DeadlineTestRaises(t) == Cardinality(ColIdx(t, "deadline")) >= 2

\* a comparison of the column with a Timestamp raises on a text cell
CompareRaises(t, idxs) == \E c \in CellsOf(t, idxs, "deadline") : c.k = "str"

\* the order of Timestamps; pd.Timestamp(date) is the midnight of the date
Earlier(x, y) == x.d < y.d \/ (x.d = y.d /\ x.t < y.t)
Midnight(n) == Ts(n, 0)

end_of_week(tdy) == tdy + (6 - DayOfWeek(tdy))

end_of_month(tdy) ==
    LET next_month == Ordinal(YearOf(tdy), MonthOf(tdy), 28) + 4
    IN  next_month - DayOf(next_month)

InRange(dl, c, tdy) ==
    /\ c.k = "ts"
    /\ CASE dl = "this_week" -> /\ ~Earlier(c, Midnight(tdy))
                                /\ ~Earlier(Midnight(end_of_week(tdy)), c)
         [] dl = "this_month" -> /\ ~Earlier(c, Midnight(tdy))
                                 /\ ~Earlier(Midnight(end_of_month(tdy)), c)
         [] dl = "closed" -> Earlier(c, Midnight(tdy))
         [] OTHER -> TRUE

\* lines 456-467
FilterDeadline(t, idxs, dl, tdy) ==
    LET Test(i) == InRange(dl, t.rows[i][TheCol(t, "deadline")], tdy)
    IN  IF DeadlineKnown(t, idxs) /\ dl # "all" THEN SelectSeq(idxs, Test) ELSE idxs

FilterRaises(t, idxs, dl) ==
    \/ DeadlineTestRaises(t)
    \/ (DeadlineKnown(t, idxs) /\ dl # "all" /\ CompareRaises(t, idxs))

\* lines 479-484: the count of the deadlines of the coming week
StatsRaise(t) ==
    \/ DeadlineTestRaises(t)
    \/ (DeadlineKnown(t, AllRows(t)) /\ CompareRaises(t, AllRows(t)))

RECURSIVE TextLess(_, _)
TextLess(a, b) ==
    IF b = <<>> THEN FALSE
    ELSE IF a = <<>> THEN TRUE
    ELSE IF Head(a) = Head(b) THEN TextLess(Tail(a), Tail(b))
    ELSE CharRank(Head(a)) < CharRank(Head(b))

\* the order of sort_values: ascending, the null cells last
KeyLess(x, y) ==
    IF IsNull(x) THEN FALSE
    ELSE IF IsNull(y) THEN TRUE
    ELSE IF x.k = "ts" /\ y.k = "ts" THEN Earlier(x, y)
    ELSE TextLess(x.s, y.s)

Range(f) == {f[x] : x \in DOMAIN f}

\* filtered_df.sort_values(by=name): an order of the rows that ascends in
\* the column; the sort is not stable, rows with equal keys come in any
\* order
SortValues(t, idxs, name) ==
    {p \in [1..Len(idxs) -> Range(idxs)] :
        /\ Range(p) = Range(idxs)
        /\ \A a, b \in 1..Len(idxs) :
               a < b => ~KeyLess(t.rows[p[b]][TheCol(t, name)],
                                 t.rows[p[a]][TheCol(t, name)])}

\* sort_values raises on a label that several columns carry
SortRaises(t, sb) ==
    \/ (sb = "by_deadline" /\ Cardinality(ColIdx(t, "deadline")) >= 2)
    \/ (sb = "by_company" /\ Cardinality(ColIdx(t, "company")) >= 2)

\* lines 536-540: the third option sorts nothing
SortBy(t, idxs, sb) ==
    IF sb = "by_deadline" /\ HasCol(t, "deadline") THEN SortValues(t, idxs, "deadline")
    ELSE IF sb = "by_company" /\ HasCol(t, "company") THEN SortValues(t, idxs, "company")
    ELSE {idxs}

\* main from line 395 on, for the table t: what is shown.  shown lists the
\* index labels of the records in the order of display and cards their
\* cards; without a record to show there is the message of line 550.
Show(t, notices, path, hit) ==
    LET base == [OutInit EXCEPT !.path = path, !.hit = hit, !.flip = ~out.flip,
                                !.notices = notices]
    IN  IF IsEmpty(t)
        THEN out' = [base EXCEPT !.status = "nodata",
                                 !.notices = notices \cup {"warning_no_data"}]
        ELSE IF WidgetsRaise(t)
        THEN out' = [base EXCEPT !.status = "crash"]
        ELSE \E ind \in Options(t, "industry"), pos \in Options(t, "position"),
                wt \in work_types(t), dl \in deadline_options,
                sb \in {sort_options[k] : k \in 1..Len(sort_options)} :
                LET sel == [base EXCEPT !.industry = ind, !.position = pos,
                                        !.work_type = wt, !.deadline = dl,
                                        !.sort_by = sb]
                    f == FilterFields(t, ind, pos, wt)
                IN  IF FilterRaises(t, f, dl) \/ StatsRaise(t) \/ SortRaises(t, sb)
                    THEN out' = [sel EXCEPT !.status = "crash"]
                    ELSE \E order \in SortBy(t, FilterDeadline(t, f, dl, today), sb) :
                            out' = [sel EXCEPT
                                       !.status = "ok",
                                       !.shown = order,
                                       !.cards = [k \in 1..Len(order) |->
                                           display_internship_card(t, order[k], today)],
                                       !.notices = IF order = <<>>
                                                   THEN notices \cup {"info_no_match"}
                                                   ELSE notices]

\* main with the spreadsheet as the data source, up to the answer of the
\* API.  A fresh entry is served and the run goes on to the display at
\* once; without one the body runs: it returns at once without a service,
\* else it sends its request and waits.  A run that finds another one
\* waiting waits for its entry.
MainSheetsBegin ==
    /\ ~call.on
    /\ IF CacheFresh(cache, now)
       THEN /\ df' = cache.value.frame
            /\ Show(cache.value.frame, cache.value.notices, "sheets", TRUE)
            /\ UNCHANGED <<cache, call>>
       ELSE LET st == FetchStart(upstream, secrets)
            IN  IF st.wait
                THEN /\ call' = [on |-> TRUE, src |-> st.src, notices |-> st.notices]
                     /\ UNCHANGED <<cache, df, out>>
                ELSE LET r == [frame |-> EmptyFrame, notices |-> st.notices]
                     IN  /\ cache' = Entry(now, st.src, <<>>, r)
                         /\ df' = r.frame
                         /\ Show(r.frame, r.notices, "sheets", FALSE)
                         /\ UNCHANGED call
    /\ UNCHANGED <<upstream, secrets, remote, now, today, uploaded, arg, df2>>

\* the API answers: the body builds its table from the sheet as it is now,
\* the result is stored with the time of now, and the run goes on to the
\* display
MainSheetsEnd ==
    /\ call.on
    /\ LET r == FetchAnswer(upstream, call.notices, remote[call.src])
       IN  /\ cache' = Entry(now, call.src,
                             IF upstream = "ok" THEN remote[call.src] ELSE <<>>, r)
           /\ df' = r.frame
           /\ Show(r.frame, r.notices, "sheets", FALSE)
    /\ call' = NoCall
    /\ UNCHANGED <<upstream, secrets, remote, now, today, uploaded, arg, df2>>

\* main with an uploaded file as the data source
MainUpload ==
    /\ LET t == IF uploaded.kind = "frame" THEN standardize_columns(uploaded.frame)
                ELSE EmptyFrame
           n == IF uploaded.kind = "frame" THEN {"success_upload"}
                ELSE IF uploaded.kind = "unreadable" THEN {"error_upload"} ELSE {}
       IN  /\ df' = t
           /\ arg' = IF uploaded.kind = "frame" THEN ArgumentAfter(uploaded.frame)
                     ELSE arg
           /\ Show(t, n, "upload", FALSE)
    /\ UNCHANGED <<upstream, secrets, remote, now, today, cache, call, uploaded, df2>>

-----------------------------------------------------------------------------
(* Inputs of the model.                                                    *)

Sources == {"s1", "hardcoded"}

T_A == <<"A">>
T_B == <<"B">>
T_empty == <<>>
T_blank == <<" ">>
T_TBD == <<"T", "B", "D">>
T_May01 == <<"2", "0", "2", "4", "-", "0", "5", "-", "0", "1">>
T_May17 == <<"2", "0", "2", "4", "-", "0", "5", "-", "1", "7">>
T_May17_slash == <<"2", "0", "2", "4", "/", "0", "5", "/", "1", "7">>
T_May17_2024 == <<"2", "0", "2", "4", "-", "0", "5", "-", "1", "7", " ",
                  "2", "0", ":", "2", "4">>
T_May19_10 == <<"2", "0", "2", "4", "-", "0", "5", "-", "1", "9", " ",
                "1", "0", ":", "0", "0">>
T_May31 == <<"2", "0", "2", "4", "-", "0", "5", "-", "3", "1">>
T_Jun01 == <<"2", "0", "2", "4", "-", "0", "6", "-", "0", "1">>
T_Jun01_name == <<"J", "u", "n", " ", "1", ",", " ", "2", "0", "2", "4">>
T_far == <<"9", "9", "9", "9", "-", "1", "2", "-", "3", "1">>
T_IT == <<"I", "T">>
T_Fin == <<"F", "i", "n">>
T_Eng == <<"E", "n", "g">>

SeqsUpTo(S, n) == UNION {[1..k -> S] : k \in 0..n}

\* the texts a sheet holds under a label
CellTexts(label) ==
    CASE label = "company" -> {T_A, T_B}
      [] label = "deadline" -> {T_empty, T_blank, T_TBD, T_May17, T_May17_slash,
                                T_May17_2024, T_far}
      [] label = "start_date" -> {T_empty, T_TBD, T_Jun01, T_Jun01_name}
      [] OTHER -> {T_A}

FullRows(h) == {r \in [1..Len(h) -> UNION {CellTexts(h[j]) : j \in 1..Len(h)}] :
                    \A j \in 1..Len(h) : r[j] \in CellTexts(h[j])}

\* the API leaves out the trailing empty cells of a row, so that no row ends
\* in an empty text, and a row may hold a cell past the header
SheetRows(h) ==
    {r \in {SubSeq(f, 1, w) : f \in FullRows(h), w \in 0..Len(h)} :
        r = <<>> \/ r[Len(r)] # T_empty}
        \cup {[j \in 1..(Len(h) + 1) |-> T_A]}

FetchHeaders ==
    {<<"company", "deadline", "start_date">>, <<"company", "deadline">>,
     <<"company", "start_date">>, <<"company">>}

\* the grids of a sheet of at most n data rows
FetchGrids(n) ==
    {<<>>} \cup UNION {{<<h>> \o rows : rows \in SeqsUpTo(SheetRows(h), n)} :
                          h \in FetchHeaders}

Day0 == Ordinal(2024, 5, 15)

-----------------------------------------------------------------------------
(* The ingestion on its own: one call of the body of fetch_internship_data *)
(* on a grid, the request and then the answer.                             *)

InitFetch ==
    /\ \/ upstream = "ok" /\ \E g \in FetchGrids(MaxRows) :
              remote = [s \in Sources |-> IF s = "s1" THEN g ELSE <<>>]
       \/ upstream \in {"no_service", "api_error"}
              /\ remote = [s \in Sources |-> <<>>]
    /\ secrets = "s1"
    /\ now = 0
    /\ today = Day0
    /\ cache = NoEntry
    /\ call = NoCall
    /\ uploaded = NoFile
    /\ arg = EmptyFrame
    /\ df = EmptyFrame
    /\ df2 = EmptyFrame
    /\ out = OutInit
    /\ pc = "start"

\* lines 137-167, to the request
Fetch ==
    /\ pc = "start"
    /\ LET st == FetchStart(upstream, secrets)
       IN  IF st.wait
           THEN /\ call' = [on |-> TRUE, src |-> st.src, notices |-> st.notices]
                /\ pc' = "waiting"
                /\ UNCHANGED <<df, out>>
           ELSE /\ df' = EmptyFrame
                /\ out' = [out EXCEPT !.path = "sheets", !.notices = st.notices]
                /\ pc' = "fetched"
                /\ UNCHANGED call
    /\ UNCHANGED <<upstream, secrets, remote, now, today, cache, uploaded, arg, df2>>

\* lines 167-191, from the answer
FetchReturn ==
    /\ pc = "waiting"
    /\ call.on
    /\ LET r == FetchAnswer(upstream, call.notices, remote[call.src])
       IN  /\ df' = r.frame
           /\ out' = [out EXCEPT !.path = "sheets", !.notices = r.notices]
    /\ call' = NoCall
    /\ pc' = "fetched"
    /\ UNCHANGED <<upstream, secrets, remote, now, today, cache, uploaded, arg, df2>>

NextFetch == Fetch \/ FetchReturn

SpecFetch == InitFetch /\ [][NextFetch]_vars

\* the grid of the configured source, its header and its data rows
values == remote[SourceOf(secrets)]
headers == Head(values)
rows == Tail(values)

-----------------------------------------------------------------------------
(* One run of main on a sheet or on an uploaded table.                     *)

T_Des == <<"D", "e", "s">>

ViewHeader == <<"company", "industry", "position", "deadline">>

\* rows of a sheet under ViewHeader; the last two have lost trailing cells
ViewRows ==
    {<<T_A, T_IT, T_Eng, T_May17>>, <<T_B, T_Fin, T_Eng, T_TBD>>,
     <<T_B, T_IT, T_Eng, T_Jun01>>, <<T_A, T_Fin, T_Eng, T_May01>>,
     <<T_B, T_IT, T_Eng, T_May31>>, <<T_A, T_IT, T_Eng, T_May17_slash>>,
     <<T_B, T_Fin, T_Eng, T_May19_10>>, <<T_A, T_IT, T_Eng>>, <<T_B>>}

ViewGrids ==
    {<<>>}
        \cup {<<ViewHeader>> \o r : r \in SeqsUpTo(ViewRows, MaxRows)}
        \cup {<<<<"company", "industry", "position">>>> \o r :
                 r \in SeqsUpTo({<<T_A, T_IT, T_Eng>>, <<T_B, T_Fin, T_Eng>>}, MaxRows)}
        \cup {<<<<"company", "deadline">>>> \o r :
                 r \in SeqsUpTo({<<T_A, T_May17>>}, MaxRows)}

\* what read_excel gives under a label: text, NaN for an empty cell,
\* Timestamp or NaT in a column of dates, text among the dates
UploadCells(label) ==
    CASE label = "company" -> {Str(T_A), Str(T_B)}
      [] label = "industry" -> {Str(T_IT), None}
      [] label = "position" -> {Str(T_Eng)}
      [] label = "intern_position" -> {Str(T_Des)}
      [] label = "deadline" -> {Ts(Ordinal(2024, 5, 17), 0), NaT, Str(T_TBD)}
      [] OTHER -> {Str(T_A)}

UploadRows(h) ==
    {r \in [1..Len(h) -> UNION {UploadCells(h[j]) : j \in 1..Len(h)}] :
        \A j \in 1..Len(h) : r[j] \in UploadCells(h[j])}

UploadHeaders ==
    {<<"company", "industry", "intern_position", "deadline">>,
     <<"company", "industry", "position", "intern_position">>,
     <<"company", "deadline">>,
     <<"company", "industry", "position">>,
     <<"memo">>}

UploadFrames ==
    UNION {{[cols |-> h, rows |-> r] : r \in SeqsUpTo(UploadRows(h), MaxRows)} :
              h \in UploadHeaders}

UploadFiles ==
    {[kind |-> "unreadable", frame |-> EmptyFrame]}
        \cup {[kind |-> "frame", frame |-> t] : t \in UploadFrames}

InitView ==
    /\ upstream = "ok"
    /\ secrets = "s1"
    /\ \/ uploaded = NoFile /\ \E g \in ViewGrids :
              remote = [s \in Sources |-> IF s = "s1" THEN g ELSE <<>>]
       \/ uploaded \in UploadFiles /\ remote = [s \in Sources |-> <<>>]
    /\ now = 0
    /\ today \in {Ordinal(2024, 5, 15), Ordinal(2024, 5, 30)}
    /\ cache = NoEntry
    /\ call = NoCall
    /\ arg = EmptyFrame
    /\ df = EmptyFrame
    /\ df2 = EmptyFrame
    /\ out = OutInit
    /\ pc = "start"

NextView ==
    \/ /\ pc = "start" /\ uploaded = NoFile
       /\ MainSheetsBegin
       /\ pc' = IF call'.on THEN "waiting" ELSE "shown"
    \/ pc = "waiting" /\ MainSheetsEnd /\ pc' = "shown"
    \/ pc = "start" /\ MainUpload /\ pc' = "shown"

SpecView == InitView /\ [][NextView]_vars

-----------------------------------------------------------------------------
(* The application over time: runs of main, the clock, and edits of the    *)
(* secrets and of the sheet.                                               *)

SheetOk == <<ViewHeader, <<T_A, T_IT, T_Eng, T_May17>>>>

AppGrids == {<<>>, SheetOk}

\* the file offered on the upload path is one read_excel cannot read
AppUpload == [kind |-> "unreadable", frame |-> EmptyFrame]

Init ==
    /\ upstream \in {"ok", "api_error", "no_service"}
    /\ secrets = "s1"
    /\ remote = [s \in Sources |-> IF s = "s1" THEN SheetOk ELSE <<<<"company">>, <<T_B>>>>]
    /\ now = 0
    /\ today = Day0
    /\ cache = NoEntry
    /\ call = NoCall
    /\ uploaded = AppUpload
    /\ arg = EmptyFrame
    /\ df = EmptyFrame
    /\ df2 = EmptyFrame
    /\ out = OutInit
    /\ pc = "run"

\* time passes
Tick ==
    /\ now + TickSeconds <= MaxNow
    /\ now' = now + TickSeconds
    /\ UNCHANGED <<upstream, secrets, remote, today, cache, call, uploaded, arg,
                   df, df2, out, pc>>

\* the secrets name another spreadsheet, or none
EditSecrets ==
    /\ secrets' \in {"s1", "unset"} \ {secrets}
    /\ UNCHANGED <<upstream, remote, now, today, cache, call, uploaded, arg,
                   df, df2, out, pc>>

\* somebody edits the configured spreadsheet
EditSheet ==
    /\ \E g \in AppGrids \ {remote["s1"]} : remote' = [remote EXCEPT !["s1"] = g]
    /\ UNCHANGED <<upstream, secrets, now, today, cache, call, uploaded, arg,
                   df, df2, out, pc>>

Next ==
    \/ MainSheetsBegin /\ UNCHANGED pc
    \/ MainSheetsEnd /\ UNCHANGED pc
    \/ MainUpload /\ UNCHANGED pc
    \/ Tick
    \/ EditSecrets
    \/ EditSheet

Spec == Init /\ [][Next]_vars

-----------------------------------------------------------------------------
(* standardize_columns on its own: the table read from a file goes through *)
(* it once, then its result goes through it again, or the table of the     *)
(* file with its columns permuted does.                                    *)

StdCells(label) ==
    CASE label = "company" -> {Str(T_A), Str(T_B)}
      [] label = "position" -> {Str(T_Eng)}
      [] label = "intern_position" -> {Str(T_Des)}
      [] OTHER -> {Str(T_IT)}

\* tables of read_excel: up to three columns, the labels pairwise distinct
StdHeaders ==
    {h \in UNION {[1..k -> {"company", "position", "intern_position", "memo"}] :
                     k \in 1..3} :
        \A a, b \in 1..Len(h) : a # b => h[a] # h[b]}

StdRows(h) ==
    {r \in [1..Len(h) -> UNION {StdCells(h[j]) : j \in 1..Len(h)}] :
        \A j \in 1..Len(h) : r[j] \in StdCells(h[j])}

StdFrames ==
    UNION {{[cols |-> h, rows |-> r] : r \in SeqsUpTo(StdRows(h), MaxRows)} :
              h \in StdHeaders}

ColumnOrders(n) == {p \in [1..n -> 1..n] : Range(p) = 1..n}

\* the table with its columns in the order p
Permute(t, p) ==
    [cols |-> [j \in 1..Len(t.cols) |-> t.cols[p[j]]],
     rows |-> [i \in 1..Len(t.rows) |->
                  [j \in 1..Len(t.cols) |-> t.rows[i][p[j]]]]]

InitStd ==
    /\ upstream = "ok"
    /\ secrets = "s1"
    /\ remote = [s \in Sources |-> <<>>]
    /\ now = 0
    /\ today = Day0
    /\ cache = NoEntry
    /\ call = NoCall
    /\ \E t \in StdFrames : uploaded = [kind |-> "frame", frame |-> t]
    /\ arg = EmptyFrame
    /\ df = EmptyFrame
    /\ df2 = EmptyFrame
    /\ out = OutInit
    /\ pc = "start"

\* the table read from the file is passed: arg is that table after the call
Standardize ==
    /\ pc = "start"
    /\ df' = standardize_columns(uploaded.frame)
    /\ arg' = ArgumentAfter(uploaded.frame)
    /\ pc' = "once"
    /\ UNCHANGED <<upstream, secrets, remote, now, today, cache, call, uploaded,
                   df2, out>>

\* the first result is passed: it is the argument
Restandardize ==
    /\ pc = "once"
    /\ df2' = standardize_columns(df)
    /\ df' = ArgumentAfter(df)
    /\ arg' = ArgumentAfter(df)
    /\ pc' = "twice"
    /\ UNCHANGED <<upstream, secrets, remote, now, today, cache, call, uploaded, out>>

\* the table read from the file is passed with its columns in another order
StandardizePermuted ==
    /\ pc = "once"
    /\ \E p \in ColumnOrders(Len(uploaded.frame.cols)) :
           /\ df2' = standardize_columns(Permute(uploaded.frame, p))
           /\ arg' = ArgumentAfter(Permute(uploaded.frame, p))
    /\ pc' = "permuted"
    /\ UNCHANGED <<upstream, secrets, remote, now, today, cache, call, uploaded,
                   df, out>>

NextStd == Standardize \/ Restandardize \/ StandardizePermuted

SpecStd == InitStd /\ [][NextStd]_vars

-----------------------------------------------------------------------------
(* Properties of the ingestion (SpecFetch).                                *)

Fetched == pc = "fetched" /\ upstream = "ok" /\ values # <<>>

DateLabels == {"deadline", "start_date"}

\* no message shown reports an error
Errors == {"error_no_service", "error_fetch", "error_upload"}
NoError == out.notices \cap Errors = {}

\* C1: a grid of a header row and N data rows, of any widths, gives a table
\* of exactly N records.
C1_LengthIsRowCount == Fetched => Len(df.rows) = Len(rows)

\* the text of cell j of data row i is no date (or the cell is missing)
NotADate(i, j) == j > Len(rows[i]) \/ ~Parse(rows[i][j]).ok

Rectangular == \A i \in 1..Len(rows) : Len(rows[i]) = Len(headers)

\* C3: a date cell that is empty, blank or not a date gives the marker NaT
\* in its field, whichever date columns the header has, and the text fields
\* of the record stay as read; no error is raised.  Stated on the grids
\* whose rows are all as wide as the header, where building the table
\* cannot fail.
C3_BadDateIsMarker ==
    (Fetched /\ Rectangular) =>
        /\ NoError
        /\ Len(df.rows) = Len(rows)
        /\ \A i \in 1..Len(rows), j \in 1..Len(headers) :
               /\ (headers[j] \in DateLabels /\ NotADate(i, j))
                      => Get(df, i, headers[j], None) = <<NaT>>
               /\ headers[j] \notin DateLabels
                      => Get(df, i, headers[j], None) = <<Str(rows[i][j])>>

\* C4: a data row shorter than the header gives one record whose missing
\* trailing fields hold the text unknown; no error is raised and no row is
\* dropped.
C4_ShortRowFilled ==
    Fetched =>
        \A i \in 1..Len(rows) :
            Len(rows[i]) < Len(headers) =>
                /\ NoError
                /\ Len(df.rows) = Len(rows)
                /\ \A j \in (Len(rows[i]) + 1)..Len(headers) :
                       Get(df, i, headers[j], None) = <<Str(T_unknown)>>

-----------------------------------------------------------------------------
(* Properties of standardize_columns (SpecStd).                            *)

Distinct(labels) ==
    \A a, b \in 1..Len(labels) : a # b => labels[a] # labels[b]

\* C9: a table whose labels are pairwise distinct keeps pairwise distinct
\* labels through standardize_columns.
C9_DistinctLabelsKept ==
    (pc # "start" /\ Distinct(uploaded.frame.cols)) => Distinct(df.cols)

\* C7: standardizing a standardized table changes nothing, and the value
\* read under a label in a record does not depend on the order of the
\* columns of the input.
C7_IdempotentAnyOrder ==
    /\ pc = "twice" => df2 = df
    /\ pc = "permuted" =>
           \A i \in 1..Len(df.rows), name \in Range(df.cols) :
               Get(df2, i, name, None) = Get(df, i, name, None)

\* the first half of C7 alone
C7_Idempotent == pc = "twice" => df2 = df

-----------------------------------------------------------------------------
(* Properties of one run of main (SpecView).                               *)

\* the labels of the table the run read, when it read one
SourceLabels ==
    IF out.path = "sheets" THEN (IF values = <<>> THEN {} ELSE Range(headers))
    ELSE Range(uploaded.frame.cols)

\* no label of the source stands for the canonical field f
Lacks(f) ==
    \A col \in SourceLabels : col \in MappingKeys => column_mapping(col) # f

\* C2: each canonical field the header lacks is a field of every record,
\* holding the text unknown, on the sheet path and on the upload path, and
\* neither main nor a card fails on it.
C2_MissingFieldIsUnknown ==
    (pc = "shown" /\ SourceLabels # {}) =>
        /\ out.status # "crash"
        /\ \A k \in 1..Len(out.cards) : ~out.cards[k].error
        /\ \A f \in CanonicalFields :
               Lacks(f) => /\ HasCol(df, f)
                           /\ \A i \in 1..Len(df.rows) :
                                  Get(df, i, f, None) = <<Str(T_unknown)>>

\* C5: a grid of no rows gives an empty table and no error; main shows
\* nothing but its no-data notice.
C5_EmptyGridEmptyResult ==
    (pc = "shown" /\ out.path = "sheets" /\ values = <<>>) =>
        /\ df = EmptyFrame
        /\ NoError
        /\ out.status = "nodata"
        /\ out.shown = <<>>

C5_Witness ==
    /\ pc = "shown" /\ out.path = "sheets" /\ values = <<>>
    /\ out.status = "nodata"
    /\ out.notices = {"warning_no_values", "warning_no_data"}

NoFilter ==
    out.industry.any /\ out.position.any /\ out.work_type.any /\ out.deadline = "all"

\* main has run on a source that has a header row
HasGrid ==
    /\ pc = "shown"
    /\ \/ out.path = "sheets" /\ values # <<>>
       \/ out.path = "upload" /\ uploaded.kind = "frame"

\* record i of the table is built from row i of the source, for every row:
\* a text field holds the text of the row's cell, a date field what
\* pd.to_datetime makes of the text of the row's own cell (NaT for a text
\* that is no date), and a cell the row lacks is missing; an uploaded
\* table keeps its rows under the columns it came with
BuiltInOrder ==
    IF out.path = "sheets"
    THEN /\ Len(df.rows) = Len(rows)
         /\ \A i \in 1..Len(rows), j \in 1..Len(headers) :
                df.rows[i][j] =
                    IF headers[j] \in DateLabels
                    THEN (IF j > Len(rows[i]) THEN NaT ELSE Stamp(rows[i][j]))
                    ELSE (IF j > Len(rows[i]) THEN None ELSE Str(rows[i][j]))
    ELSE /\ Len(df.rows) = Len(uploaded.frame.rows)
         /\ \A i \in 1..Len(df.rows) :
                SubSeq(df.rows[i], 1, Len(uploaded.frame.cols)) = uploaded.frame.rows[i]

\* C6: for every grid and every order of its data rows the records are
\* shown in that order: record i is built from data row i, and without a
\* filter the display lists every record, the first row first, both under
\* the option latest and under the option the selectbox starts on, which
\* the claim takes to be latest.
C6_OrderPreserved ==
    (HasGrid /\ NoFilter /\ out.sort_by \in {"latest", sort_options[1]}) =>
        /\ out.status \in {"ok", "nodata"}
        /\ NoError
        /\ BuiltInOrder
        /\ out.shown = AllRows(df)

\* the last day of the week of tdy (Sunday) and of its month
LastOfWeek(tdy) == CHOOSE e \in tdy..(tdy + 6) : DayOfWeek(e) = 6
LastOfMonth(tdy) ==
    Ordinal(YearOf(tdy), MonthOf(tdy), DaysInMonth(YearOf(tdy), MonthOf(tdy)))

\* C10: with a deadline filter selected every card shown has a parsed
\* deadline in the range of the filter; a record whose deadline is absent
\* or unparseable is not shown.
C10_DeadlineFilterSound ==
    (pc = "shown" /\ out.status = "ok" /\ out.deadline # "all") =>
        \A k \in 1..Len(out.shown) :
            /\ HasCol(df, "deadline")
            /\ LET c == df.rows[out.shown[k]][TheCol(df, "deadline")]
               IN  /\ c.k = "ts"
                   /\ out.deadline = "this_week" =>
                          (today <= c.d /\ c.d <= LastOfWeek(today))
                   /\ out.deadline = "this_month" =>
                          (today <= c.d /\ c.d <= LastOfMonth(today))
                   /\ out.deadline = "closed" => c.d < today

-----------------------------------------------------------------------------
(* Properties of the cache (Spec).                                         *)

\* this step shows a run of main on the sheet path
SheetRun == out'.flip # out.flip /\ out'.path = "sheets"

\* this step begins a run of main on the sheet path
Starts == ~call.on /\ (call'.on \/ SheetRun)

\* this step is the answer of the API to a run
Answered == call.on /\ ~call'.on

InWindow == cache.valid /\ now - cache.at < TTL

\* the run shows the stored result and asks nothing
Reused ==
    /\ SheetRun /\ out'.hit
    /\ ~call'.on
    /\ cache' = cache
    /\ df' = cache.value.frame

\* the run executes the body for the source of the secrets: it sends its
\* request, or without a service stores the empty result at once
Refetches ==
    IF upstream = "no_service"
    THEN /\ SheetRun /\ ~out'.hit
         /\ cache'.valid /\ cache'.at = now
         /\ df' = EmptyFrame /\ cache'.value.frame = EmptyFrame
    ELSE /\ call'.on /\ call'.src = SourceOf(secrets)
         /\ cache' = cache /\ out' = out

\* the result of the answer is stored with the time of the answer and
\* shown
Stored ==
    /\ SheetRun /\ ~out'.hit
    /\ cache'.valid /\ cache'.at = now
    /\ cache'.src = call.src
    /\ upstream = "ok" => cache'.raw = remote[call.src]
    /\ df' = cache'.value.frame

\* C8 as stated: the entry is kept per data source; a run within 300 s of
\* the fetch for its source reuses the result, any other run fetches, and
\* the entry changes only at the end of a fetch by a run that found none in
\* its window.
C8_KeyedBySource ==
    [][/\ Starts =>
              IF InWindow /\ cache.src = SourceOf(secrets) THEN Reused ELSE Refetches
       /\ Answered => Stored
       /\ cache' # cache =>
              /\ ~(InWindow /\ cache.src = SourceOf(secrets))
              /\ Answered \/ (Starts /\ upstream = "no_service")]_vars

\* C8 amended: the function has one entry, whatever the data source.
C8_SingleEntryWindow ==
    [][/\ Starts => IF InWindow THEN Reused ELSE Refetches
       /\ Answered => Stored
       /\ cache' # cache =>
              /\ ~InWindow
              /\ Answered \/ (Starts /\ upstream = "no_service")]_vars

\* an entry stored 300 s or more after the start is reused later in its
\* window, while the secrets name another source than the one it was read
\* from
C8_Witness ==
    /\ out.path = "sheets" /\ out.hit
    /\ cache.valid /\ cache.at >= TTL
    /\ now > cache.at /\ now - cache.at < TTL
    /\ cache.src # SourceOf(secrets)
    /\ cache.src # "none"

====
